---- MODULE Spec2Model ----
(***************************************************************************)
(* ATtiny10 Thermometer v2 (ATtiny10Thermometer.ino): the one-wire bus     *)
(* driver, the DS18B20 read sequence, the watchdog sleep and the LED       *)
(* display, as a state machine.  The program is a stack of return          *)
(* addresses (labels are function name + source line); the sensor on the   *)
(* bus is the environment that PinRead samples.                            *)
(***************************************************************************)
EXTENDS Integers, Sequences, FiniteSets, TLC

\* ------------------------------------------------------------------ bounds
\* Longest conversion (in read slots) of a sensor that does finish.
MaxBusySlots == 9
\* Longest run of consecutive byte reads the bus monitor records.
MaxLogReads == 12
\* Saturation of the monitor's measure of a continuous drive-low interval.
MaxLowUs == 1000

\* ------------------------------------------------------- program constants
OneWirePin == 0
RedPin == 1
GreenPin == 2
SkipROM == 204
ConvertT == 68
ReadScratchpad == 190
WDIE == 6
WDIF == 7
ResetLow == 480
ResetWait == 70
ResetRecover == 410
SlotUs == 70
ReadLow == 6
ReadWait == 9
ReadRecover == 55
ScratchpadLen == 9
CrcPoly == 140

\* ------------------------------------------------------------- arithmetic
Pow2(n) == 2^n

Bit(x, i) == (x \div Pow2(i)) % 2

\* bitwise operators on 16-bit values
BitOr(a, b) ==
  LET o(i) == IF Bit(a, i) = 1 \/ Bit(b, i) = 1 THEN Pow2(i) ELSE 0
      RECURSIVE S(_)
      S(i) == IF i < 0 THEN 0 ELSE o(i) + S(i - 1)
  IN S(15)

BitAnd(a, b) ==
  LET o(i) == IF Bit(a, i) = 1 /\ Bit(b, i) = 1 THEN Pow2(i) ELSE 0
      RECURSIVE S(_)
      S(i) == IF i < 0 THEN 0 ELSE o(i) + S(i - 1)
  IN S(15)

BitXor(a, b) ==
  LET o(i) == IF Bit(a, i) # Bit(b, i) THEN Pow2(i) ELSE 0
      RECURSIVE S(_)
      S(i) == IF i < 0 THEN 0 ELSE o(i) + S(i - 1)
  IN S(15)

\* ~(1<<pin) applied to an 8-bit register
ClearBit(x, pin) == x - Bit(x, pin) * Pow2(pin)

SetBit(x, pin) == BitOr(x, Pow2(pin))

\* a 16-bit word read as an AVR int
ToInt16(w) == IF w >= 32768 THEN w - 65536 ELSE w

\* ------------------------------------------------------------------ state
VARIABLES
  stack,      \* return addresses, innermost first; Head is the program counter
  DDRB,       \* port direction register (bit OneWirePin set = line driven low)
  PORTB,      \* port data register (LED pins)
  WDTCSR,     \* watchdog control register
  asleep,     \* processor halted in sleep_cpu()
  DataBytes,  \* the 9-byte buffer (DataWords overlays it)
  loc,        \* locals and arguments of the functions, and the return value
  sensor,     \* the device on the bus
  mon         \* bus/LED monitor: history of what happened on the pins

vars == <<stack, DDRB, PORTB, WDTCSR, asleep, DataBytes, loc, sensor, mon>>

Top == Head(stack)

\* a watchdog interrupt is flagged and its handler has not run yet
Pending == Bit(WDTCSR, WDIF) = 1

\* the program is at label and executes (awake, no interrupt to serve first)
Running(label) == ~asleep /\ ~Pending /\ stack # <<>> /\ Top = label

Goto(label) == <<label>> \o Tail(stack)

Call(fn, ret) == <<fn, ret>> \o Tail(stack)

Return == Tail(stack)

\* ------------------------------------------------------------ pin access
PinLow(ddrb) == SetBit(ddrb, OneWirePin)

\* the release left out
PinRelease_m(ddrb) == ddrb

PinRelease(ddrb) == ClearBit(ddrb, OneWirePin)

Driven(ddrb) == Bit(ddrb, OneWirePin) = 1

\* PINB>>OneWirePin & 1: the line is a wired AND of the master and the sensor
\* a pin that is not connected to the bus
PinRead_m(ddrb, pull) == 1

PinRead(ddrb, pull) == IF Driven(ddrb) \/ pull THEN 0 ELSE 1

\* DelayMicros(us) as the monitor sees it: time the line has been held low
DelayMicros(ddrb, lowUs, us) ==
  IF Driven(ddrb)
  THEN (IF lowUs + us > MaxLowUs THEN MaxLowUs ELSE lowUs + us)
  ELSE lowUs

\* ------------------------------------------------------------- the sensor
\* Scratchpads a device may send: three valid captures (85.0, -10.125 and
\* 25.0625 degrees), one capture with a flipped bit, and a line held low.
Scratchpads ==
  { <<80, 5, 75, 70, 127, 255, 12, 16, 28>>,
    <<94, 255, 75, 70, 127, 255, 2, 16, 182>>,
    <<145, 1, 75, 70, 127, 255, 15, 16, 37>>,
    <<81, 5, 75, 70, 127, 255, 12, 16, 28>>,
    <<0, 0, 0, 0, 0, 0, 0, 0, 0>> }

SensorInit == [sns |-> "idle", pull |-> FALSE, pad |-> <<>>, pos |-> 0, busy |-> 0]

\* bit number pos (0-based, least significant bit of byte 0 first) of the pad
PadBit(pad, pos) ==
  IF pos < 8 * Len(pad) THEN Bit(pad[(pos \div 8) + 1], pos % 8) ELSE 1

\* The device during a low pulse of the master: a reset pulse resets it, the
\* falling edge of a bit slot makes it hold the line for a 0 or leave it for a 1.
SensorOnLow(s, us) ==
  IF us >= ResetLow
  THEN {[s EXCEPT !.sns = "reset", !.pull = FALSE, !.pos = 0, !.busy = 0]}
  ELSE CASE s.sns = "busy" ->
              {[s EXCEPT !.sns = "done", !.pull = FALSE]}
              \cup (IF s.busy < MaxBusySlots
                    THEN {[s EXCEPT !.pull = TRUE, !.busy = @ + 1]}
                    ELSE {})
         [] s.sns = "stuck" -> {[s EXCEPT !.pull = TRUE]}
         [] s.sns = "sending" ->
              {[s EXCEPT !.pull = (PadBit(s.pad, s.pos) = 0),
                         !.pos = IF @ < 8 * Len(s.pad) THEN @ + 1 ELSE @]}
         [] OTHER -> {[s EXCEPT !.pull = FALSE]}

\* The device after the master released the line: after a reset pulse a
\* device that is attached answers with a presence pulse.
SensorOnRelease(s) ==
  IF s.sns = "reset"
  THEN {[s EXCEPT !.sns = "cmd", !.pull = TRUE],
        [s EXCEPT !.sns = "absent", !.pull = FALSE]}
  ELSE {s}

\* The device at the end of a slot: it lets go of the line.
SensorOnRecover(s) == [s EXCEPT !.pull = FALSE]

\* The device on a complete command byte.
SensorOnByte(s, byte) ==
  IF s.sns # "cmd" THEN {s}
  ELSE CASE byte = SkipROM -> {s}
         [] byte = ConvertT -> {[s EXCEPT !.sns = "busy", !.busy = 0],
                                [s EXCEPT !.sns = "stuck", !.busy = 0]}
         [] byte = ReadScratchpad ->
              {[s EXCEPT !.sns = "sending", !.pad = p, !.pos = 0] : p \in Scratchpads}
         [] OTHER -> {[s EXCEPT !.sns = "idle"]}

\* ------------------------------------------------------------ the monitor
MonInit ==
  [slot |-> <<>>,      \* events of the bus operation in progress
   nslots |-> 0,       \* slots of the byte in progress
   wbits |-> 0,        \* byte as a receiver samples the written slots
   lowUs |-> 0,        \* length of the current or last drive-low interval
   busLog |-> <<>>,    \* bus operations of the current read cycle
   ledLog |-> <<>>,    \* LED flashes of the current loop iteration
   hi |-> FALSE,       \* the conversion-wait poll has sampled the line high
   after |-> 0,        \* read slots begun in the poll after that sample
   wakes |-> 0,        \* runs of the watchdog handler since the watchdog was armed
   stray |-> FALSE,    \* the handler has run outside a WDDelay call
   sleeps |-> <<>>,    \* prescale codes of the wake events of the current loop iteration
   touched |-> FALSE,  \* the bus was driven in the current loop iteration
   buf0 |-> [k \in 1..ScratchpadLen |-> 0]]  \* DataBytes at the start of the cycle

\* the program is inside the conversion-wait poll (line 164)
InPoll == \E k \in DOMAIN stack : stack[k] \in {"Temp_164", "Temp_164b"}

TrailingReads(log) ==
  LET RECURSIVE T(_)
      T(k) == IF k = 0 \/ log[k].op # "read" THEN 0 ELSE 1 + T(k - 1)
  IN T(Len(log))

LogRead(log, n) ==
  IF TrailingReads(log) >= MaxLogReads THEN log
  ELSE Append(log, [op |-> "read", v |-> 0, slots |-> n])

\* --------------------------------------------------------------- LowRelease
\* lines 52-53: PinLow(); DelayMicros(low);
LowRelease_52 ==
  /\ Running("LowRelease")
  /\ DDRB' = PinLow(DDRB)
  /\ \E s \in SensorOnLow(sensor, loc.low) : sensor' = s
  /\ mon' = [mon EXCEPT !.slot = <<<<"low", loc.low>>>>,
                        !.nslots = @ + 1,
                        !.touched = TRUE,
                        !.lowUs = DelayMicros(DDRB', IF Driven(DDRB) THEN @ ELSE 0, loc.low),
                        !.after = IF InPoll /\ mon.hi THEN @ + 1 ELSE @]
  /\ stack' = Goto("LowRelease_54")
  /\ UNCHANGED <<PORTB, WDTCSR, asleep, DataBytes, loc>>

\* lines 54-55: PinRelease(); DelayMicros(high);
LowRelease_54 ==
  /\ Running("LowRelease_54")
  /\ DDRB' = PinRelease(DDRB)
  /\ \E s \in SensorOnRelease(sensor) : sensor' = s
  /\ mon' = [mon EXCEPT !.slot = Append(@, <<"high", loc.high>>),
                        !.lowUs = DelayMicros(DDRB', @, loc.high)]
  /\ loc' = [loc EXCEPT !.low = 0, !.high = 0]
  /\ stack' = Return
  /\ UNCHANGED <<PORTB, WDTCSR, asleep, DataBytes>>

\* -------------------------------------------------------------- OneWireReset
\* lines 64-65: data = 1; LowRelease(480, 70);
Reset_64 ==
  /\ Running("OneWireReset")
  /\ loc' = [loc EXCEPT !.data = 1, !.low = ResetLow, !.high = ResetWait]
  /\ mon' = [mon EXCEPT !.nslots = 0]
  /\ stack' = Call("LowRelease", "Reset_66")
  /\ UNCHANGED <<DDRB, PORTB, WDTCSR, asleep, DataBytes, sensor>>

\* line 66: data = PinRead();
Reset_66 ==
  /\ Running("Reset_66")
  /\ loc' = [loc EXCEPT !.data = PinRead(DDRB, sensor.pull)]
  /\ mon' = [mon EXCEPT !.slot = Append(@, <<"sample", loc'.data>>)]
  /\ stack' = Goto("Reset_67")
  /\ UNCHANGED <<DDRB, PORTB, WDTCSR, asleep, DataBytes, sensor>>

\* lines 67-68: DelayMicros(410); return data;
Reset_67 ==
  /\ Running("Reset_67")
  /\ sensor' = SensorOnRecover(sensor)
  /\ mon' = [mon EXCEPT !.slot = Append(@, <<"high", ResetRecover>>),
                        !.lowUs = DelayMicros(DDRB, @, ResetRecover),
                        !.busLog = Append(@, [op |-> "reset", v |-> loc.data,
                                              slots |-> mon.nslots])]
  /\ loc' = [loc EXCEPT !.rv = loc.data, !.data = 0]
  /\ stack' = Return
  /\ UNCHANGED <<DDRB, PORTB, WDTCSR, asleep, DataBytes>>

\* -------------------------------------------------------------- OneWireWrite
\* line 74: if ((data & 1) == 1) del = 6; else del = 60;
\* the two pulse lengths exchanged
WriteDel_m(data) == IF data % 2 = 1 THEN 60 ELSE 6

WriteDel(data) == IF data % 2 = 1 THEN 6 ELSE 60

\* the released part of a write slot without the low part taken off
WriteHigh_m(del) == SlotUs

\* line 75: 70 - del
WriteHigh(del) == SlotUs - del

\* line 76: data = data >> 1;
\* the shift left out
WriteShift_m(data) == data

WriteShift(data) == data \div 2

\* line 84: data | bit<<i
ReadAssemble(data, bit, i) == BitOr(data, bit * Pow2(i)) % 256

\* the level of the line of a slot at the read sample point, 6 + 9
\* microseconds after the start of the slot, the master alone driving
LoopSample(slot) == IF slot[1][2] > ReadLow + ReadWait THEN 0 ELSE 1

\* line 73: for (int i = 0; ...
Write_73 ==
  /\ Running("OneWireWrite")
  /\ loc' = [loc EXCEPT !.i = 0, !.del = 0]
  /\ mon' = [mon EXCEPT !.nslots = 0, !.wbits = 0]
  /\ stack' = Goto("Write_74")
  /\ UNCHANGED <<DDRB, PORTB, WDTCSR, asleep, DataBytes, sensor>>

\* lines 73-75: i<8; del; LowRelease(del, 70 - del);  and the return
Write_74 ==
  /\ Running("Write_74")
  /\ IF loc.i < 8
     THEN /\ loc' = [loc EXCEPT !.del = WriteDel(loc.data),
                                !.low = WriteDel(loc.data),
                                !.high = WriteHigh(WriteDel(loc.data))]
          /\ stack' = Call("LowRelease", "Write_76")
          /\ UNCHANGED <<sensor, mon>>
     ELSE /\ loc' = [loc EXCEPT !.i = 0, !.del = 0, !.data = 0]
          /\ \E s \in SensorOnByte(sensor, mon.wbits) : sensor' = s
          /\ mon' = [mon EXCEPT !.busLog = Append(@, [op |-> "write", v |-> mon.wbits,
                                                      slots |-> mon.nslots])]
          /\ stack' = Return
  /\ UNCHANGED <<DDRB, PORTB, WDTCSR, asleep, DataBytes>>

\* lines 76, 73: data = data >> 1; i++
Write_76 ==
  /\ Running("Write_76")
  /\ loc' = [loc EXCEPT !.data = WriteShift(@), !.i = @ + 1]
  /\ mon' = [mon EXCEPT !.wbits = ReadAssemble(@, LoopSample(mon.slot), loc.i)]
  /\ stack' = Goto("Write_74")
  /\ UNCHANGED <<DDRB, PORTB, WDTCSR, asleep, DataBytes, sensor>>

\* --------------------------------------------------------------- OneWireRead
\* lines 81-82: data = 0; for (int i = 0; ...
Read_81 ==
  /\ Running("OneWireRead")
  /\ loc' = [loc EXCEPT !.rdata = 0, !.ri = 0]
  /\ mon' = [mon EXCEPT !.nslots = 0]
  /\ stack' = Goto("Read_82")
  /\ UNCHANGED <<DDRB, PORTB, WDTCSR, asleep, DataBytes, sensor>>

\* lines 82-83: i<8; LowRelease(6, 9);  and line 87: return data;
Read_82 ==
  /\ Running("Read_82")
  /\ IF loc.ri < 8
     THEN /\ loc' = [loc EXCEPT !.low = ReadLow, !.high = ReadWait]
          /\ stack' = Call("LowRelease", "Read_84")
          /\ UNCHANGED mon
     ELSE /\ loc' = [loc EXCEPT !.rv = loc.rdata, !.rdata = 0, !.ri = 0]
          /\ mon' = [mon EXCEPT !.busLog = LogRead(@, mon.nslots)]
          /\ stack' = Return
  /\ UNCHANGED <<DDRB, PORTB, WDTCSR, asleep, DataBytes, sensor>>

\* line 84: data = data | PinRead()<<i;
Read_84 ==
  /\ Running("Read_84")
  /\ LET bit == PinRead(DDRB, sensor.pull) IN
       /\ loc' = [loc EXCEPT !.rdata = ReadAssemble(@, bit, loc.ri)]
       /\ mon' = [mon EXCEPT !.slot = Append(@, <<"sample", bit>>),
                             !.hi = @ \/ (InPoll /\ bit = 1)]
  /\ stack' = Goto("Read_85")
  /\ UNCHANGED <<DDRB, PORTB, WDTCSR, asleep, DataBytes, sensor>>

\* lines 85, 82: DelayMicros(55); i++
Read_85 ==
  /\ Running("Read_85")
  /\ sensor' = SensorOnRecover(sensor)
  /\ mon' = [mon EXCEPT !.slot = Append(@, <<"high", ReadRecover>>),
                        !.lowUs = DelayMicros(DDRB, @, ReadRecover)]
  /\ loc' = [loc EXCEPT !.ri = @ + 1]
  /\ stack' = Goto("Read_82")
  /\ UNCHANGED <<DDRB, PORTB, WDTCSR, asleep, DataBytes>>

\* ---------------------------------------------------------- OneWireReadBytes
\* line 92: for (int i=0; ...
ReadBytes_92 ==
  /\ Running("OneWireReadBytes")
  /\ loc' = [loc EXCEPT !.rbi = 0]
  /\ stack' = Goto("ReadBytes_93")
  /\ UNCHANGED <<DDRB, PORTB, WDTCSR, asleep, DataBytes, sensor, mon>>

\* lines 92-93: i<bytes; OneWireRead();  and the return
ReadBytes_93 ==
  /\ Running("ReadBytes_93")
  /\ IF loc.rbi < loc.bytes
     THEN /\ stack' = Call("OneWireRead", "ReadBytes_93b")
          /\ UNCHANGED loc
     ELSE /\ loc' = [loc EXCEPT !.rbi = 0, !.bytes = 0]
          /\ stack' = Return
  /\ UNCHANGED <<DDRB, PORTB, WDTCSR, asleep, DataBytes, sensor, mon>>

\* lines 93, 92: DataBytes[i] = (returned byte); i++
ReadBytes_93b ==
  /\ Running("ReadBytes_93b")
  /\ DataBytes' = [DataBytes EXCEPT ![loc.rbi + 1] = loc.rv]
  /\ loc' = [loc EXCEPT !.rbi = @ + 1]
  /\ stack' = Goto("ReadBytes_93")
  /\ UNCHANGED <<DDRB, PORTB, WDTCSR, asleep, sensor, mon>>

\* ---------------------------------------------------------------- OneWireCRC
\* the top bit of the polynomial lost: 0x0c
CrcRounds_m(crc, n) ==
  LET RECURSIVE R(_, _)
      R(c, k) == IF k = 0 THEN c
                 ELSE R(BitXor(c \div 2, IF c % 2 = 1 THEN 12 ELSE 0), k - 1)
  IN R(crc, n)

\* line 102: crc = crc>>1 ^ ((crc & 1) ? 0x8c : 0), 8 times
CrcRounds(crc, n) ==
  LET RECURSIVE R(_, _)
      R(c, k) == IF k = 0 THEN c
                 ELSE R(BitXor(c \div 2, IF c % 2 = 1 THEN CrcPoly ELSE 0), k - 1)
  IN R(crc, n)

\* lines 101-102 for one byte: the accumulator after the XOR, through 8 rounds
CrcTable == [c \in 0..255 |-> CrcRounds(c, 8)]

\* the accumulator started at 0xFF
OneWireCRC_init(buf, bytes) ==
  LET RECURSIVE C(_)
      C(j) == IF j = 0 THEN 255
              ELSE CrcTable[CHOOSE x \in {BitXor(crc, buf[j]) : crc \in {C(j - 1)}} : TRUE]
  IN C(bytes)

\* the byte loop one short: j<bytes-1
OneWireCRC_short(buf, bytes) ==
  LET RECURSIVE C(_)
      C(j) == IF j <= 0 THEN 0
              ELSE CrcTable[CHOOSE x \in {BitXor(crc, buf[j]) : crc \in {C(j - 1)}} : TRUE]
  IN C(bytes - 1)

\* lines 98-105: the CRC over the first `bytes` bytes of the buffer
OneWireCRC(buf, bytes) ==
  LET RECURSIVE C(_)
      C(j) == IF j = 0 THEN 0
              ELSE CrcTable[CHOOSE x \in {BitXor(crc, buf[j]) : crc \in {C(j - 1)}} : TRUE]
  IN C(bytes)

\* DataWords[0]: bytes 0 and 1 of the buffer as a little-endian word
DataWords0(buf) == buf[1] + 256 * buf[2]

\* ------------------------------------------------------------------ WDDelay
\* the interrupt enable left out
WDPrescale_m(n) == BitOr(BitAnd(n, 8) * 4, BitAnd(n, 7))

\* bit 3 of the code not moved to bit 5
WDPrescale_noshift(n) == BitOr(Pow2(WDIE), n)

\* line 146: 1<<WDIE | (n & 0x8)<<2 | (n & 0x7)
WDPrescale(n) == BitOr(Pow2(WDIE), BitOr(BitAnd(n, 8) * 4, BitAnd(n, 7)))

LedsOn(portb) == BitAnd(portb, Pow2(RedPin) + Pow2(GreenPin))

\* lines 145-148: arm the watchdog interrupt and sleep
WDDelay_145 ==
  /\ Running("WDDelay")
  /\ WDTCSR' = WDPrescale(loc.n)
  /\ asleep' = TRUE
  /\ mon' = [mon EXCEPT !.ledLog = IF LedsOn(PORTB) # 0
                                   THEN Append(@, [port |-> PORTB, n |-> loc.n])
                                   ELSE @,
                        !.wakes = 0]
  /\ stack' = Goto("WDDelay_149")
  /\ UNCHANGED <<DDRB, PORTB, DataBytes, loc, sensor>>

\* the prescale code held in the register: WDP3 is bit 5, WDP2..0 bits 2..0
WDCode(wdtcsr) == Bit(wdtcsr, 5) * 8 + (wdtcsr % 8)

\* The armed watchdog expires: the interrupt is flagged and the processor,
\* if it sleeps, wakes up.
WDT_timeout ==
  /\ Bit(WDTCSR, WDIE) = 1
  /\ ~Pending
  /\ WDTCSR' = SetBit(WDTCSR, WDIF)
  /\ asleep' = FALSE
  /\ UNCHANGED <<stack, DDRB, PORTB, DataBytes, loc, sensor, mon>>

\* the register left as it is
IsrBody_m(wdtcsr) == wdtcsr

\* line 152: WDTCSR = 0<<WDIE;
IsrBody(wdtcsr) == 0

\* lines 151-153: ISR(WDT_vect); entering it clears the interrupt flag
WDT_vect ==
  /\ Pending
  /\ WDTCSR' = IsrBody(ClearBit(WDTCSR, WDIF))
  /\ mon' = [mon EXCEPT !.wakes = @ + 1,
                        !.stray = @ \/ asleep \/ stack = <<>> \/ Top # "WDDelay_149",
                        !.sleeps = Append(@, WDCode(WDTCSR))]
  /\ UNCHANGED <<stack, DDRB, PORTB, asleep, DataBytes, loc, sensor>>

\* line 149: return from WDDelay
WDDelay_149 ==
  /\ Running("WDDelay_149")
  /\ loc' = [loc EXCEPT !.n = 0]
  /\ stack' = Return
  /\ UNCHANGED <<DDRB, PORTB, WDTCSR, asleep, DataBytes, sensor, mon>>

\* ------------------------------------------------------- DisplayError, Pulse
\* the flash as short as that of Pulse: WDDelay(0)
DisplayError_109_m ==
  /\ Running("DisplayError")
  /\ PORTB' = SetBit(PORTB, loc.pin)
  /\ loc' = [loc EXCEPT !.n = 0]
  /\ stack' = Call("WDDelay", "DisplayError_111")
  /\ UNCHANGED <<DDRB, WDTCSR, asleep, DataBytes, sensor, mon>>

\* lines 109-110: pin high; WDDelay(6);
DisplayError_109 ==
  /\ Running("DisplayError")
  /\ PORTB' = SetBit(PORTB, loc.pin)
  /\ loc' = [loc EXCEPT !.n = 6]
  /\ stack' = Call("WDDelay", "DisplayError_111")
  /\ UNCHANGED <<DDRB, WDTCSR, asleep, DataBytes, sensor, mon>>

\* lines 111-112: pin low; WDDelay(6);
DisplayError_111 ==
  /\ Running("DisplayError_111")
  /\ PORTB' = ClearBit(PORTB, loc.pin)
  /\ loc' = [loc EXCEPT !.n = 6]
  /\ stack' = Call("WDDelay", "DisplayError_113")
  /\ UNCHANGED <<DDRB, WDTCSR, asleep, DataBytes, sensor, mon>>

\* line 113: return
DisplayError_113 ==
  /\ Running("DisplayError_113")
  /\ loc' = [loc EXCEPT !.pin = 0]
  /\ stack' = Return
  /\ UNCHANGED <<DDRB, PORTB, WDTCSR, asleep, DataBytes, sensor, mon>>

\* lines 116-117: pin high; WDDelay(0);
Pulse_116 ==
  /\ Running("Pulse")
  /\ PORTB' = SetBit(PORTB, loc.pin)
  /\ loc' = [loc EXCEPT !.n = 0]
  /\ stack' = Call("WDDelay", "Pulse_118")
  /\ UNCHANGED <<DDRB, WDTCSR, asleep, DataBytes, sensor, mon>>

\* the pin left high
Pulse_118_m ==
  /\ Running("Pulse_118")
  /\ PORTB' = PORTB
  /\ loc' = [loc EXCEPT !.n = 6]
  /\ stack' = Call("WDDelay", "Pulse_120")
  /\ UNCHANGED <<DDRB, WDTCSR, asleep, DataBytes, sensor, mon>>

\* lines 118-119: pin low; WDDelay(6);
Pulse_118 ==
  /\ Running("Pulse_118")
  /\ PORTB' = ClearBit(PORTB, loc.pin)
  /\ loc' = [loc EXCEPT !.n = 6]
  /\ stack' = Call("WDDelay", "Pulse_120")
  /\ UNCHANGED <<DDRB, WDTCSR, asleep, DataBytes, sensor, mon>>

\* line 120: return
Pulse_120 ==
  /\ Running("Pulse_120")
  /\ loc' = [loc EXCEPT !.pin = 0]
  /\ stack' = Return
  /\ UNCHANGED <<DDRB, PORTB, WDTCSR, asleep, DataBytes, sensor, mon>>

\* -------------------------------------------------------------------- Flash
\* the forced pulse of bit 0 left out
FlashShows_m(zeros, b, i) == zeros \/ b = 1

\* line 134: if (zeros || b || (i==0))
FlashShows(zeros, b, i) == zeros \/ b = 1 \/ i = 0

\* lines 131-132: zeros = false; for (int i=7; ...
Flash_131 ==
  /\ Running("Flash")
  /\ loc' = [loc EXCEPT !.zeros = FALSE, !.fi = 7]
  /\ stack' = Goto("Flash_133")
  /\ UNCHANGED <<DDRB, PORTB, WDTCSR, asleep, DataBytes, sensor, mon>>

\* lines 132-135: i>=0; b = value>>i & 1; the pulse of the bit;  and the return
Flash_133 ==
  /\ Running("Flash_133")
  /\ IF loc.fi >= 0
     THEN LET b == Bit(loc.value, loc.fi) IN
            IF FlashShows(loc.zeros, b, loc.fi)
            THEN /\ loc' = [loc EXCEPT !.pin = IF b = 1 THEN RedPin ELSE GreenPin]
                 /\ stack' = Call("Pulse", "Flash_136")
            ELSE /\ loc' = [loc EXCEPT !.fi = @ - 1]
                 /\ stack' = stack
     ELSE /\ loc' = [loc EXCEPT !.fi = 0, !.zeros = FALSE, !.value = 0]
          /\ stack' = Return
  /\ UNCHANGED <<DDRB, PORTB, WDTCSR, asleep, DataBytes, sensor, mon>>

\* lines 136, 132: zeros = true; i--
Flash_136 ==
  /\ Running("Flash_136")
  /\ loc' = [loc EXCEPT !.zeros = TRUE, !.fi = @ - 1]
  /\ stack' = Goto("Flash_133")
  /\ UNCHANGED <<DDRB, PORTB, WDTCSR, asleep, DataBytes, sensor, mon>>

\* -------------------------------------------------------------- Temperature
\* the presence result dropped
NotFound_m(rv) == FALSE

\* line 159: if (OneWireReset() != 0)
NotFound(rv) == rv # 0

\* the poll left at the first byte with a 1 bit in it
PollAgain_m(rv) == rv = 0

\* the poll left after one byte
PollAgain_once(rv) == FALSE

\* line 164: while (OneWireRead() != 0xFF);
PollAgain(rv) == rv # 255

\* the CRC result dropped
CrcOk_m(crc) == TRUE

\* line 169: if (OneWireCRC(9) == 0)
CrcOk(crc) == crc = 0

\* line 159: OneWireReset(), the first reset of the read cycle
Temp_159 ==
  /\ Running("Temperature")
  /\ mon' = [mon EXCEPT !.busLog = <<>>, !.hi = FALSE, !.after = 0, !.buf0 = DataBytes]
  /\ stack' = Call("OneWireReset", "Temp_159b")
  /\ UNCHANGED <<DDRB, PORTB, WDTCSR, asleep, DataBytes, loc, sensor>>

\* lines 159-160: presence test; DisplayError(RedPin);
Temp_159b ==
  /\ Running("Temp_159b")
  /\ IF NotFound(loc.rv)
     THEN /\ loc' = [loc EXCEPT !.pin = RedPin]
          /\ stack' = Call("DisplayError", "Temp_173")
     ELSE /\ loc' = loc
          /\ stack' = Goto("Temp_162")
  /\ UNCHANGED <<DDRB, PORTB, WDTCSR, asleep, DataBytes, sensor, mon>>

\* line 162: OneWireWrite(SkipROM);
Temp_162 ==
  /\ Running("Temp_162")
  /\ loc' = [loc EXCEPT !.data = SkipROM]
  /\ stack' = Call("OneWireWrite", "Temp_163")
  /\ UNCHANGED <<DDRB, PORTB, WDTCSR, asleep, DataBytes, sensor, mon>>

\* line 163: OneWireWrite(ConvertT);
Temp_163 ==
  /\ Running("Temp_163")
  /\ loc' = [loc EXCEPT !.data = ConvertT]
  /\ stack' = Call("OneWireWrite", "Temp_164")
  /\ UNCHANGED <<DDRB, PORTB, WDTCSR, asleep, DataBytes, sensor, mon>>

\* line 164: OneWireRead() of the conversion-wait poll
Temp_164 ==
  /\ Running("Temp_164")
  /\ stack' = Call("OneWireRead", "Temp_164b")
  /\ UNCHANGED <<DDRB, PORTB, WDTCSR, asleep, DataBytes, loc, sensor, mon>>

\* line 164: the loop test of the poll
Temp_164b ==
  /\ Running("Temp_164b")
  /\ stack' = IF PollAgain(loc.rv) THEN Goto("Temp_164") ELSE Goto("Temp_165")
  /\ UNCHANGED <<DDRB, PORTB, WDTCSR, asleep, DataBytes, loc, sensor, mon>>

\* line 165: OneWireReset(); the result is dropped
Temp_165 ==
  /\ Running("Temp_165")
  /\ mon' = [mon EXCEPT !.after = 0]
  /\ stack' = Call("OneWireReset", "Temp_166")
  /\ UNCHANGED <<DDRB, PORTB, WDTCSR, asleep, DataBytes, loc, sensor>>

\* line 166: OneWireWrite(SkipROM);
Temp_166 ==
  /\ Running("Temp_166")
  /\ loc' = [loc EXCEPT !.data = SkipROM]
  /\ stack' = Call("OneWireWrite", "Temp_167")
  /\ UNCHANGED <<DDRB, PORTB, WDTCSR, asleep, DataBytes, sensor, mon>>

\* line 167: OneWireWrite(ReadScratchpad);
Temp_167 ==
  /\ Running("Temp_167")
  /\ loc' = [loc EXCEPT !.data = ReadScratchpad]
  /\ stack' = Call("OneWireWrite", "Temp_168")
  /\ UNCHANGED <<DDRB, PORTB, WDTCSR, asleep, DataBytes, sensor, mon>>

\* line 168: OneWireReadBytes(9);
Temp_168 ==
  /\ Running("Temp_168")
  /\ loc' = [loc EXCEPT !.bytes = ScratchpadLen]
  /\ stack' = Call("OneWireReadBytes", "Temp_169")
  /\ UNCHANGED <<DDRB, PORTB, WDTCSR, asleep, DataBytes, sensor, mon>>

\* lines 169-171: the CRC test; return DataWords[0];  or DisplayError(GreenPin);
Temp_169 ==
  /\ Running("Temp_169")
  /\ IF CrcOk(OneWireCRC(DataBytes, ScratchpadLen))
     THEN /\ loc' = [loc EXCEPT !.rv = ToInt16(DataWords0(DataBytes))]
          /\ stack' = Return
     ELSE /\ loc' = [loc EXCEPT !.pin = GreenPin]
          /\ stack' = Call("DisplayError", "Temp_173")
  /\ UNCHANGED <<DDRB, PORTB, WDTCSR, asleep, DataBytes, sensor, mon>>

\* line 173: return 0;
Temp_173 ==
  /\ Running("Temp_173")
  /\ loc' = [loc EXCEPT !.rv = 0]
  /\ stack' = Return
  /\ UNCHANGED <<DDRB, PORTB, WDTCSR, asleep, DataBytes, sensor, mon>>

\* --------------------------------------------------------------------- loop
\* -temp in a 16-bit int
Negate16(t) == ToInt16((0 - t) % 65536)

\* temp>>4 passed as an unsigned int
FlashArg(t) == (t \div 16) % 65536

\* line 190: WDDelay(9);
Loop_190 ==
  /\ Running("loop")
  /\ loc' = [loc EXCEPT !.n = 9, !.temp = 0]
  /\ mon' = [mon EXCEPT !.ledLog = <<>>, !.sleeps = <<>>, !.touched = FALSE]
  /\ stack' = Call("WDDelay", "loop_191")
  /\ UNCHANGED <<DDRB, PORTB, WDTCSR, asleep, DataBytes, sensor>>

\* the second sleep left out
Loop_191_m ==
  /\ Running("loop_191")
  /\ stack' = Goto("loop_192")
  /\ UNCHANGED <<DDRB, PORTB, WDTCSR, asleep, DataBytes, loc, sensor, mon>>

\* line 191: WDDelay(9);
Loop_191 ==
  /\ Running("loop_191")
  /\ loc' = [loc EXCEPT !.n = 9]
  /\ stack' = Call("WDDelay", "loop_192")
  /\ UNCHANGED <<DDRB, PORTB, WDTCSR, asleep, DataBytes, sensor, mon>>

\* line 192: Temperature()
Loop_192 ==
  /\ Running("loop_192")
  /\ stack' = Call("Temperature", "loop_193")
  /\ UNCHANGED <<DDRB, PORTB, WDTCSR, asleep, DataBytes, loc, sensor, mon>>

\* lines 192-193: temp = (returned value); if (temp < 0) Pulse(GreenPin);
Loop_193 ==
  /\ Running("loop_193")
  /\ IF loc.rv < 0
     THEN /\ loc' = [loc EXCEPT !.temp = loc.rv, !.pin = GreenPin]
          /\ stack' = Call("Pulse", "loop_193b")
     ELSE /\ loc' = [loc EXCEPT !.temp = loc.rv]
          /\ stack' = Goto("loop_194")
  /\ UNCHANGED <<DDRB, PORTB, WDTCSR, asleep, DataBytes, sensor, mon>>

\* line 193: temp = -temp;
Loop_193b ==
  /\ Running("loop_193b")
  /\ loc' = [loc EXCEPT !.temp = Negate16(@)]
  /\ stack' = Goto("loop_194")
  /\ UNCHANGED <<DDRB, PORTB, WDTCSR, asleep, DataBytes, sensor, mon>>

\* line 194: Flash(temp>>4); and back to the top of loop()
Loop_194 ==
  /\ Running("loop_194")
  /\ loc' = [loc EXCEPT !.value = FlashArg(loc.temp)]
  /\ stack' = Call("Flash", "loop")
  /\ UNCHANGED <<DDRB, PORTB, WDTCSR, asleep, DataBytes, sensor, mon>>

\* ------------------------------------------------------------ specification
LocInit ==
  [low |-> 0, high |-> 0, data |-> 0, i |-> 0, del |-> 0, rdata |-> 0, ri |-> 0,
   rbi |-> 0, bytes |-> 0, n |-> 0, pin |-> 0, value |-> 0, fi |-> 0,
   zeros |-> FALSE, temp |-> 0, rv |-> 0, sum |-> 0]

\* lines 178-186: the state setup() leaves
Init ==
  /\ stack = <<"loop">>
  /\ DDRB = Pow2(RedPin) + Pow2(GreenPin)
  /\ PORTB = 0
  /\ WDTCSR = 0
  /\ asleep = FALSE
  /\ DataBytes = [k \in 1..ScratchpadLen |-> 0]
  /\ loc = LocInit
  /\ sensor = SensorInit
  /\ mon = MonInit

Next ==
  \/ LowRelease_52 \/ LowRelease_54
  \/ Reset_64 \/ Reset_66 \/ Reset_67
  \/ Write_73 \/ Write_74 \/ Write_76
  \/ Read_81 \/ Read_82 \/ Read_84 \/ Read_85
  \/ ReadBytes_92 \/ ReadBytes_93 \/ ReadBytes_93b
  \/ WDDelay_145 \/ WDT_timeout \/ WDT_vect \/ WDDelay_149
  \/ DisplayError_109 \/ DisplayError_111 \/ DisplayError_113
  \/ Pulse_116 \/ Pulse_118 \/ Pulse_120
  \/ Flash_131 \/ Flash_133 \/ Flash_136
  \/ Temp_159 \/ Temp_159b \/ Temp_162 \/ Temp_163 \/ Temp_164 \/ Temp_164b
  \/ Temp_165 \/ Temp_166 \/ Temp_167 \/ Temp_168 \/ Temp_169 \/ Temp_173
  \/ Loop_190 \/ Loop_191 \/ Loop_192 \/ Loop_193 \/ Loop_193b \/ Loop_194

Spec == Init /\ [][Next]_vars

\* The program always takes its next step and the watchdog always expires;
\* nothing is assumed of the sensor.
FairSpec == Spec /\ WF_vars(Next)

\* ------------------------------------------- the bus driver on its own
\* OneWireWrite(b) followed by OneWireRead() of a device that sends b, for
\* every byte b.
BusInit ==
  /\ stack = <<"Bus">>
  /\ DDRB = Pow2(RedPin) + Pow2(GreenPin)
  /\ PORTB = 0
  /\ WDTCSR = 0
  /\ asleep = FALSE
  /\ DataBytes = [k \in 1..ScratchpadLen |-> 0]
  /\ loc = LocInit
  /\ \E b \in 0..255 : sensor = [SensorInit EXCEPT !.pad = <<b>>]
  /\ mon = MonInit

\* OneWireWrite(b)
Bus_Write ==
  /\ Running("Bus")
  /\ loc' = [loc EXCEPT !.data = sensor.pad[1]]
  /\ stack' = Call("OneWireWrite", "Bus_read")
  /\ UNCHANGED <<DDRB, PORTB, WDTCSR, asleep, DataBytes, sensor, mon>>

\* OneWireRead(), the device sending its byte
Bus_Read ==
  /\ Running("Bus_read")
  /\ sensor' = [sensor EXCEPT !.sns = "sending", !.pos = 0]
  /\ stack' = Call("OneWireRead", "Bus_done")
  /\ UNCHANGED <<DDRB, PORTB, WDTCSR, asleep, DataBytes, loc, mon>>

BusNext ==
  \/ Bus_Write \/ Bus_Read
  \/ LowRelease_52 \/ LowRelease_54
  \/ Write_73 \/ Write_74 \/ Write_76
  \/ Read_81 \/ Read_82 \/ Read_84 \/ Read_85

BusSpec == BusInit /\ [][BusNext]_vars

\* ------------------------------------------------ OneWireCRC on its own
\* Data bytes to run the CRC over: the captures, all ones, a count, and
\* buffers with a single nonzero byte.
CrcPrefixes ==
  {SubSeq(p, 1, 8) : p \in Scratchpads}
  \cup {[k \in 1..8 |-> IF k = q THEN v ELSE 0] : q \in {1, 8}, v \in {1, 128, 255}}
  \cup {[k \in 1..8 |-> 255], <<1, 2, 3, 4, 5, 6, 7, 8>>}

\* a buffer of 8 data bytes and a ninth byte; loc.bytes is the number of
\* data bytes a checksum is made for (with 8 of them the ninth byte is any)
CrcInit ==
  /\ stack = <<"Crc">>
  /\ DDRB = Pow2(RedPin) + Pow2(GreenPin)
  /\ PORTB = 0
  /\ WDTCSR = 0
  /\ asleep = FALSE
  /\ \E pre \in CrcPrefixes, n \in 0..8 :
       \E b \in (IF n = 8 THEN 0..255 ELSE {0}) :
         /\ DataBytes = pre \o <<b>>
         /\ loc = [LocInit EXCEPT !.bytes = n]
  /\ sensor = SensorInit
  /\ mon = MonInit

\* OneWireCRC(9) of the buffer as it is
Crc_Full ==
  /\ Running("Crc")
  /\ loc' = [loc EXCEPT !.rv = OneWireCRC(DataBytes, ScratchpadLen)]
  /\ stack' = Goto("Crc_sum")
  /\ UNCHANGED <<DDRB, PORTB, WDTCSR, asleep, DataBytes, sensor, mon>>

\* the checksum of the data bytes: OneWireCRC(bytes)
Crc_Sum ==
  /\ Running("Crc_sum")
  /\ loc' = [loc EXCEPT !.sum = OneWireCRC(DataBytes, loc.bytes)]
  /\ stack' = Goto("Crc_append")
  /\ UNCHANGED <<DDRB, PORTB, WDTCSR, asleep, DataBytes, sensor, mon>>

\* the checksum stored behind the data bytes
Crc_Append ==
  /\ Running("Crc_append")
  /\ DataBytes' = [DataBytes EXCEPT ![loc.bytes + 1] = loc.sum]
  /\ stack' = Goto("Crc_own")
  /\ UNCHANGED <<DDRB, PORTB, WDTCSR, asleep, loc, sensor, mon>>

\* OneWireCRC(bytes + 1): the data bytes and their checksum
Crc_Own ==
  /\ Running("Crc_own")
  /\ loc' = [loc EXCEPT !.rv = OneWireCRC(DataBytes, loc.bytes + 1)]
  /\ stack' = Goto("Crc_done")
  /\ UNCHANGED <<DDRB, PORTB, WDTCSR, asleep, DataBytes, sensor, mon>>

FlipBit(buf, k) ==
  [buf EXCEPT ![(k \div 8) + 1] = BitXor(@, Pow2(k % 8))]

\* one bit of a buffer whose OneWireCRC(9) is 0 is flipped
Crc_Flip ==
  /\ Running("Crc_sum")
  /\ loc.rv = 0
  /\ \E k \in 0..(8 * ScratchpadLen - 1) : DataBytes' = FlipBit(DataBytes, k)
  /\ stack' = Goto("Crc_flip")
  /\ UNCHANGED <<DDRB, PORTB, WDTCSR, asleep, loc, sensor, mon>>

\* OneWireCRC(9) of the buffer with the flipped bit
Crc_Recheck ==
  /\ Running("Crc_flip")
  /\ loc' = [loc EXCEPT !.rv = OneWireCRC(DataBytes, ScratchpadLen)]
  /\ stack' = Goto("Crc_flipped")
  /\ UNCHANGED <<DDRB, PORTB, WDTCSR, asleep, DataBytes, sensor, mon>>

CrcNext == Crc_Full \/ Crc_Sum \/ Crc_Append \/ Crc_Own \/ Crc_Flip \/ Crc_Recheck

CrcSpec == CrcInit /\ [][CrcNext]_vars

\* ------------------------------------------------------ Flash on its own
\* line 194 with temp = 16 * v: Flash(v) for every v in 0..255
FlashInit ==
  /\ stack = <<"loop_194">>
  /\ DDRB = Pow2(RedPin) + Pow2(GreenPin)
  /\ PORTB = 0
  /\ WDTCSR = 0
  /\ asleep = FALSE
  /\ DataBytes = [k \in 1..ScratchpadLen |-> 0]
  /\ \E v \in 0..255 : loc = [LocInit EXCEPT !.temp = 16 * v]
  /\ sensor = SensorInit
  /\ mon = MonInit

FlashNext ==
  \/ Loop_194
  \/ Flash_131 \/ Flash_133 \/ Flash_136
  \/ Pulse_116 \/ Pulse_118 \/ Pulse_120
  \/ WDDelay_145 \/ WDT_timeout \/ WDT_vect \/ WDDelay_149

FlashSpec == FlashInit /\ [][FlashNext]_vars

\* ================================================================== claims
At(label) == Running(label)

LogEntry(op, v, slots) == [op |-> op, v |-> v, slots |-> slots]

\* the bus operations of a read cycle with k conversion-wait reads, as the
\* set of entries admitted at position j
CyclePattern(k, j) ==
  CASE j = 1 -> {LogEntry("reset", 0, 1)}
    [] j = 2 -> {LogEntry("write", SkipROM, 8)}
    [] j = 3 -> {LogEntry("write", ConvertT, 8)}
    [] j >= 4 /\ j <= 3 + k -> {LogEntry("read", 0, 8)}
    [] j = 4 + k -> {LogEntry("reset", 0, 1), LogEntry("reset", 1, 1)}
    [] j = 5 + k -> {LogEntry("write", SkipROM, 8)}
    [] j = 6 + k -> {LogEntry("write", ReadScratchpad, 8)}
    [] j >= 7 + k /\ j <= 6 + k + ScratchpadLen -> {LogEntry("read", 0, 8)}
    [] OTHER -> {}

CycleLen(k) == 6 + k + ScratchpadLen

LogFits(log, k) == \A j \in DOMAIN log : log[j] \in CyclePattern(k, j)

\* the first reset of the current read cycle found a device / found none
PresentCycle == mon.busLog # <<>> /\ mon.busLog[1].v = 0

AbsentCycle == mon.busLog # <<>> /\ mon.busLog[1].v = 1

\* the bytes the device put on the bus in the scratchpad read of this cycle
BytesOnBus ==
  IF sensor.sns = "sending" THEN sensor.pad ELSE [k \in 1..ScratchpadLen |-> 255]

\* C1: in a read cycle whose first reset detects presence the bus sees, in
\* this order and nothing else: reset, write 0xCC, write 0x44, one or more
\* conversion-wait reads, reset, write 0xCC, write 0xBE, 9 byte reads; the
\* CRC test is reached, and Temperature returns, only with all of them done
\* and the ninth byte stored.
C1_BusOrder ==
  PresentCycle =>
    \E k \in 1..MaxLogReads :
      /\ LogFits(mon.busLog, k)
      /\ (At("Temp_169") \/ At("Temp_173") \/ At("loop_193"))
           => Len(mon.busLog) = CycleLen(k)
      /\ At("Temp_169") => DataBytes = BytesOnBus

C1_Witness ==
  /\ At("Temp_169")
  /\ PresentCycle
  /\ Len(mon.busLog) = CycleLen(2)

\* C2: a read cycle whose first reset finds no presence writes no command,
\* reads no byte, issues no second reset, leaves the buffer as it was,
\* signals DeviceNotFound (the long red flash) and returns 0.
C2_NotFoundTerminal ==
  AbsentCycle =>
    /\ mon.busLog = <<LogEntry("reset", 1, 1)>>
    /\ DataBytes = mon.buf0
    /\ At("loop_193") => /\ loc.rv = 0
                         /\ mon.ledLog = <<[port |-> Pow2(RedPin), n |-> 6]>>

C2_Witness ==
  /\ At("loop_193")
  /\ AbsentCycle
  /\ DataBytes \in Scratchpads

\* C3: at the return of a cycle that read the scratchpad, the buffer holds
\* the 9 bytes read in this cycle; if their CRC is 0 the value returned is
\* the signed little-endian word of bytes 0 and 1 and no error is shown; if
\* it is not 0, CrcMismatch is shown (the long green flash) and 0 is returned.
C3_CrcGuardsValue ==
  (At("loop_193") /\ PresentCycle) =>
    /\ DataBytes = BytesOnBus
    /\ IF OneWireCRC(DataBytes, ScratchpadLen) = 0
       THEN /\ loc.rv = ToInt16(DataBytes[1] + 256 * DataBytes[2])
            /\ mon.ledLog = <<>>
       ELSE /\ loc.rv = 0
            /\ mon.ledLog = <<[port |-> Pow2(GreenPin), n |-> 6]>>

C3_Witness ==
  /\ At("loop_193")
  /\ PresentCycle
  /\ loc.rv = 0 - 162

\* C4 as claimed: no read slot is begun in the conversion-wait poll after a
\* slot has sampled the line high.
C4_Original == mon.after = 0

\* C4 as amended: the poll reads a byte (8 slots) at a time and ends when a
\* byte reads 0xFF: the second reset is reached with the last byte 0xFF, so
\* at least 7 slots after the first one that sampled high, and the poll goes
\* round again after every other byte.
C4_PollEndsOnFF ==
  /\ At("Temp_165") => loc.rv = 255 /\ mon.hi /\ mon.after >= 7
  /\ At("Temp_164") => loc.rv # 255
  /\ mon.after > 0 => mon.hi

C4_Witness ==
  /\ At("Temp_165")
  /\ mon.after > 7

\* C5: the second reset and the Read Scratchpad command are issued only
\* after the line was sampled high in the poll, and while the sensor never
\* releases the line the program is in the conversion-wait poll.
C5_PollBlocks ==
  /\ (\E j \in DOMAIN mon.busLog :
        j > 1 /\ (mon.busLog[j].op = "reset" \/ mon.busLog[j].v = ReadScratchpad))
       => mon.hi
  /\ At("Temp_165") => mon.hi
  /\ sensor.sns = "stuck" => InPoll /\ ~mon.hi /\ ~asleep

C5_Witness ==
  /\ sensor.sns = "stuck"
  /\ At("Temp_164b")
  /\ TrailingReads(mon.busLog) = MaxLogReads

\* entering the first WDDelay(9) of a loop iteration (line 190)
AtSleep1 == At("WDDelay") /\ Len(stack) >= 2 /\ stack[2] = "loop_191"

PollBlocked == InPoll /\ sensor.sns = "stuck"

\* C6 as claimed: whatever the sensor does, the next scheduled sleep is
\* always reached again.
C6_Original == []<>AtSleep1

\* C6 as amended: execution always reaches the next scheduled sleep again
\* unless the sensor holds the line low for ever in the conversion-wait poll.
C6_SleepOrPoll == []<>(AtSleep1 \/ PollBlocked)

C6_Witness ==
  /\ AtSleep1
  /\ AbsentCycle

\* C7: the pin is driven low only between lines 52 and 54 of LowRelease, so
\* it is released at every sample, at every return of a bus primitive, in
\* every sleep and during the display; a drive-low interval lasts 6, 60 or
\* 480 microseconds.
C7_ReleasedOutsidePulse ==
  /\ Driven(DDRB) => At("LowRelease_54") /\ mon.lowUs = loc.low
  /\ mon.lowUs \in {0, 6, 60, 480}
  /\ asleep => ~Driven(DDRB)

C7_Witness ==
  /\ At("LowRelease_54")
  /\ Driven(DDRB)
  /\ mon.lowUs = 60

ResetWave(v) ==
  <<<<"low", ResetLow>>, <<"high", ResetWait>>, <<"sample", v>>, <<"high", ResetRecover>>>>

\* C8: OneWireReset returns after 480 low, 70 released, one sample and 410
\* released, and returns 0 exactly when the device answered the reset with a
\* presence pulse in the 70 microseconds after the release.
C8_ResetPresence ==
  /\ (At("Temp_159b") \/ At("Temp_166")) =>
       /\ mon.slot = ResetWave(loc.rv)
       /\ mon.nslots = 1
       /\ loc.rv = 0 <=> sensor.sns = "cmd"
  /\ At("Reset_66") => (sensor.pull <=> sensor.sns = "cmd")

C8_Witness ==
  /\ At("Temp_166")
  /\ loc.rv = 1

WriteSlot(bit) ==
  IF bit = 1 THEN <<<<"low", 6>>, <<"high", 64>>>> ELSE <<<<"low", 60>>, <<"high", 10>>>>

ReadSlot(bit) == <<<<"low", 6>>, <<"high", 9>>, <<"sample", bit>>, <<"high", 55>>>>

SlotLength(slot) ==
  LET RECURSIVE L(_)
      L(k) == IF k = 0 THEN 0 ELSE slot[k][2] * (IF slot[k][1] = "sample" THEN 0 ELSE 1) + L(k - 1)
  IN L(Len(slot))

\* C9: slot i of OneWireWrite(b) is 6 low, 64 released for a 1 bit of b and
\* 60 low, 10 released for a 0 bit; a slot of OneWireRead is 6 low, 9
\* released, a sample, 55 released; each lasts 70 microseconds, and each
\* byte written or read takes exactly 8 slots.
C9_SlotTiming ==
  /\ At("Write_76") => /\ mon.slot = WriteSlot(Bit(sensor.pad[1], loc.i))
                       /\ SlotLength(mon.slot) = SlotUs
  /\ (At("Read_82") /\ loc.ri > 0) =>
       /\ mon.slot = ReadSlot(Bit(loc.rdata, loc.ri - 1))
       /\ SlotLength(mon.slot) = SlotUs
  /\ mon.nslots <= 8
  /\ \A j \in DOMAIN mon.busLog : mon.busLog[j].slots = 8
  /\ At("Bus_read") => Len(mon.busLog) = 1
  /\ At("Bus_done") => Len(mon.busLog) = 2 /\ loc.rv = sensor.pad[1]

C9_Witness ==
  /\ At("Bus_done")
  /\ sensor.pad[1] = 165
  /\ Len(mon.busLog) = 2

\* C10: the 8 slots of OneWireWrite(b), sampled at the read sample point and
\* assembled as OneWireRead assembles its bits, give b, for every byte b.
C10_LoopbackRoundTrip ==
  At("Bus_read") => /\ mon.wbits = sensor.pad[1]
                    /\ mon.busLog = <<LogEntry("write", sensor.pad[1], 8)>>

C10_Witness ==
  /\ At("Bus_read")
  /\ sensor.pad[1] = 165
  /\ mon.wbits = 165

\* C11: OneWireCRC over data bytes followed by their own checksum is 0 (for
\* 0 to 8 data bytes), a 9-byte buffer has OneWireCRC(9) = 0 exactly when
\* byte 8 is the checksum of bytes 0..7, and the checksum of the power-on
\* capture 50 05 4B 46 7F FF 0C 10 is 1C.
C11_CrcOfOwnChecksum ==
  /\ At("Crc_done") => loc.rv = 0
  /\ (At("Crc_append") /\ loc.bytes = 8) => (loc.rv = 0 <=> DataBytes[9] = loc.sum)
  /\ (At("Crc_append") /\ loc.bytes = 8
        /\ SubSeq(DataBytes, 1, 8) = <<80, 5, 75, 70, 127, 255, 12, 16>>) => loc.sum = 28

C11_Witness ==
  /\ At("Crc_append")
  /\ loc.bytes = 8
  /\ loc.rv = 0
  /\ DataBytes = <<94, 255, 75, 70, 127, 255, 2, 16, 182>>

\* C12: a 9-byte buffer whose OneWireCRC(9) is 0 has a nonzero OneWireCRC(9)
\* after any one of its 72 bits is flipped.
C12_SingleBitErrors == At("Crc_flipped") => loc.rv # 0

C12_Witness ==
  /\ At("Crc_flipped")
  /\ DataBytes = <<80, 5, 75, 70, 127, 255, 12, 16, 28 + 128>>

\* C13: a WDDelay call arms the interrupt once and sleeps, one expiry and
\* one run of the handler end it, and it returns with WDTCSR clear (no
\* enable, no flag); the interrupt is armed, flagged or served only inside a
\* WDDelay call, and the two WDDelay(9) of loop() give exactly two wake events.
C13_OneShotSleep ==
  /\ ~mon.stray
  /\ At("WDDelay_149") => mon.wakes = 1 /\ WDTCSR = 0
  /\ asleep => /\ Bit(WDTCSR, WDIE) = 1 /\ ~Pending
               /\ mon.wakes = 0 /\ Top = "WDDelay_149"
  /\ Pending => ~asleep /\ mon.wakes = 0 /\ Top = "WDDelay_149"
  /\ (stack # <<>> /\ Top # "WDDelay_149") => WDTCSR = 0
  /\ At("loop_192") => mon.sleeps = <<9, 9>>

C13_Witness ==
  /\ At("loop_192")
  /\ mon.sleeps = <<9, 9>>
  /\ mon.wakes = 1

\* C14: in every loop iteration exactly two sleeps of code 9 complete before
\* Temperature is called, with the bus untouched until then, so the bus is
\* driven only after two code-9 sleeps of the same iteration.
C14_TwoSleepsFirst ==
  /\ (At("loop_192") \/ At("Temperature")) => mon.sleeps = <<9, 9>> /\ ~mon.touched
  /\ mon.touched => Len(mon.sleeps) >= 2
  /\ \A k \in DOMAIN mon.sleeps : k <= 2 => mon.sleeps[k] = 9
  /\ (stack # <<>> /\ Top \in {"loop_191", "loop_192"}) => ~mon.touched

C14_Witness ==
  /\ At("Temperature")
  /\ mon.sleeps = <<9, 9>>
  /\ PresentCycle

\* C15: WDDelay is called with code 0, 6 or 9 only, and while the processor
\* sleeps WDTCSR is the interrupt enable (bit 6), bit 3 of the code at bit 5
\* and bits 2..0 of the code at bits 2..0.
C15_SleepCode ==
  /\ (stack # <<>> /\ Top \in {"WDDelay", "WDDelay_149"}) => loc.n \in {0, 6, 9}
  /\ asleep => WDTCSR = 64 + 32 * Bit(loc.n, 3) + (loc.n % 8)
  /\ \A k \in DOMAIN mon.sleeps : mon.sleeps[k] \in {0, 6, 9}

C15_Witness ==
  /\ asleep
  /\ loc.n = 9
  /\ WDTCSR = 97

BitLength(v) ==
  LET RECURSIVE B(_)
      B(x) == IF x = 0 THEN 0 ELSE 1 + B(x \div 2)
  IN B(v)

\* the pulses claimed for value v: one per bit from the top set bit down
FlashPattern(v) ==
  LET len == IF v = 0 THEN 1 ELSE BitLength(v) IN
    [k \in 1..len |-> [port |-> IF Bit(v, len - k) = 1 THEN Pow2(RedPin) ELSE Pow2(GreenPin),
                       n |-> 0]]

\* C16: Flash(v) lights, for each bit of v from the most significant set bit
\* down to bit 0, red for a 1 and green for a 0, each for a code-0 sleep, and
\* nothing else; max(1, bit length of v) pulses in all (one green for 0).
C16_FlashEncoding ==
  LET v == loc.temp \div 16 IN
    /\ At("loop") => mon.ledLog = FlashPattern(v)
    /\ Len(mon.ledLog) <= Len(FlashPattern(v))
    /\ \A k \in DOMAIN mon.ledLog : mon.ledLog[k] = FlashPattern(v)[k]

C16_Witness ==
  /\ At("loop")
  /\ loc.temp = 16 * 15
  /\ mon.ledLog = [k \in 1..4 |-> [port |-> Pow2(RedPin), n |-> 0]]

LongFlash(pin) == [port |-> Pow2(pin), n |-> 6]

ShortFlash(pin) == [port |-> Pow2(pin), n |-> 0]

\* the cycle read a scratchpad that fails the CRC
CrcFailedCycle == PresentCycle /\ OneWireCRC(DataBytes, ScratchpadLen) # 0

\* C17: at the end of a loop iteration, the LED sequence of a DeviceNotFound
\* cycle is a long red flash and then the single green pulse of the value 0,
\* that of a CrcMismatch cycle a long green flash and then that pulse, and
\* that of a cycle with a valid reading is made of short flashes only.
C17_ErrorPatterns ==
  (At("loop") /\ mon.busLog # <<>>) =>
    /\ AbsentCycle => mon.ledLog = <<LongFlash(RedPin), ShortFlash(GreenPin)>>
    /\ CrcFailedCycle => mon.ledLog = <<LongFlash(GreenPin), ShortFlash(GreenPin)>>
    /\ (PresentCycle /\ ~CrcFailedCycle) =>
         /\ mon.ledLog # <<>>
         /\ \A k \in DOMAIN mon.ledLog : mon.ledLog[k].n = 0

C17_Witness ==
  /\ At("loop")
  /\ CrcFailedCycle
  /\ mon.ledLog = <<LongFlash(GreenPin), ShortFlash(GreenPin)>>

\* the second reset of the cycle found no device
SecondResetAbsent ==
  \E j \in DOMAIN mon.busLog : j > 1 /\ mon.busLog[j] = LogEntry("reset", 1, 1)

\* C18: when the second reset finds no device the cycle still writes 0xCC
\* and 0xBE and reads 9 bytes, all 0xFF, whose CRC is not 0: it ends with
\* the long green flash and the value 0, not with a temperature and not with
\* the red flash.
C18_SecondResetIgnored ==
  /\ SecondResetAbsent => PresentCycle /\ sensor.sns = "absent"
  /\ (At("loop_193") /\ SecondResetAbsent) =>
       /\ \E k \in 1..MaxLogReads :
            LogFits(mon.busLog, k) /\ Len(mon.busLog) = CycleLen(k)
       /\ DataBytes = [k \in 1..ScratchpadLen |-> 255]
       /\ OneWireCRC(DataBytes, ScratchpadLen) # 0
       /\ loc.rv = 0
       /\ mon.ledLog = <<LongFlash(GreenPin)>>

C18_Witness ==
  /\ At("loop_193")
  /\ SecondResetAbsent

ZeroPad == [k \in 1..ScratchpadLen |-> 0]

\* the line read low in all 72 slots of the scratchpad read of this cycle
ZeroCycle ==
  /\ PresentCycle
  /\ ~SecondResetAbsent
  /\ sensor.sns = "sending"
  /\ sensor.pad = ZeroPad
  /\ sensor.pos = 8 * ScratchpadLen

\* C19: a scratchpad of nine zero bytes has CRC 0: Temperature returns 0
\* without an error flash, and the iteration shows the single green pulse
\* that also ends the display of a failed cycle.
C19_ZeroPadPasses ==
  /\ (At("loop_193") /\ ZeroCycle) =>
       /\ DataBytes = ZeroPad
       /\ OneWireCRC(DataBytes, ScratchpadLen) = 0
       /\ loc.rv = 0
       /\ mon.ledLog = <<>>
  /\ (At("loop") /\ ZeroCycle) => mon.ledLog = <<ShortFlash(GreenPin)>>
  /\ (At("loop") /\ (AbsentCycle \/ CrcFailedCycle)) =>
       /\ Len(mon.ledLog) = 2
       /\ mon.ledLog[2] = ShortFlash(GreenPin)

C19_Witness ==
  /\ At("loop")
  /\ ZeroCycle
  /\ mon.ledLog = <<ShortFlash(GreenPin)>>

\* the program is in a bus primitive or in the conversion-wait poll
InBusOp ==
  \E k \in DOMAIN stack :
    stack[k] \in {"LowRelease", "LowRelease_54", "OneWireReset", "Reset_66", "Reset_67",
                  "OneWireWrite", "Write_74", "Write_76", "OneWireRead", "Read_82",
                  "Read_84", "Read_85", "OneWireReadBytes", "ReadBytes_93",
                  "ReadBytes_93b", "Temp_164", "Temp_164b"}

\* the program is between the pin-high and the pin-low statement of Pulse or
\* DisplayError, i.e. in the WDDelay call that times the flash
InFlash ==
  /\ stack # <<>>
  /\ \/ Top \in {"Pulse_118", "DisplayError_111"}
     \/ /\ Top \in {"WDDelay", "WDDelay_149"}
        /\ stack[2] \in {"Pulse_118", "DisplayError_111"}

\* C20: never both LEDs; an LED is lit only in the WDDelay call of Pulse or
\* DisplayError that times its flash; both are off in every bus operation
\* and in the two WDDelay(9) of loop().
C20_LedsOnlyInFlash ==
  /\ PORTB \in {0, Pow2(RedPin), Pow2(GreenPin)}
  /\ PORTB # 0 => InFlash /\ PORTB = Pow2(loc.pin)
  /\ InBusOp => PORTB = 0
  /\ (stack # <<>> /\ Top \in {"WDDelay", "WDDelay_149"}
        /\ stack[2] \in {"loop_191", "loop_192"}) => PORTB = 0

C20_Witness ==
  /\ asleep
  /\ PORTB = Pow2(GreenPin)
  /\ stack[2] = "DisplayError_111"

====
